---- MODULE Spec2Model ----
(***************************************************************************)
(* A model of the history study assistant: the AI-service wrapper          *)
(* (retryWithBackoff, the local-storage cache) and the App component's     *)
(* state and handlers.  The repository holds two revisions of the service  *)
(* and of the App; `build' selects the pair:                               *)
(*   build 1: src/unnamed/part_001 (service) + src/unnamed/part_003 (App)  *)
(*   build 2: src/unnamed/part_000 (service) + src/unnamed/part_002 (App)  *)
(***************************************************************************)
EXTENDS Integers, Sequences, FiniteSets, TLC

(***************************************************************************)
(* Bounds of the model.                                                    *)
(***************************************************************************)
\* largest maxRetries argument tried on retryWithBackoff
MaxRetriesArg == 3
\* largest number of choice questions of a quiz in the scoring harness
MaxChoice == 10
\* largest number of handlers suspended at an await at the same time
MaxPending == 1

(***************************************************************************)
(* Program constants.                                                      *)
(***************************************************************************)
\* let delay = 2000
BaseDelay == 2000
\* maxRetries = 2
DefaultMaxRetries == 2

(***************************************************************************)
(* Errors thrown by the AI client.  Only e?.message?.includes(...) is ever *)
(* asked of an error, so an error is the set of the markers its message    *)
(* contains, or a value without a message.                                 *)
(***************************************************************************)
Markers == {"429", "RESOURCE_EXHAUSTED"}

NoMessage == [nomessage |-> TRUE]

Errors == {[message |-> m] : m \in SUBSET Markers} \cup {NoMessage}

NoError == [none |-> TRUE]

\* no error either, but the response carried no text: (response.text || "").trim() is ''
EmptyResponse == [emptyText |-> TRUE]

\* e?.message?.includes(s)
MessageIncludes(e, s) == "message" \in DOMAIN e /\ s \in e.message

IsQuotaErrorOnly429(e) == MessageIncludes(e, "429")

IsQuotaError(e) ==
  MessageIncludes(e, "429") \/ MessageIncludes(e, "RESOURCE_EXHAUSTED")

RetryDecisionNoCap(e, i, maxRetries) ==
  IF IsQuotaError(e) THEN "wait" ELSE "throw"

\* the catch block of retryWithBackoff: wait and continue, or rethrow
RetryDecision(e, i, maxRetries) ==
  IF IsQuotaError(e) /\ i < maxRetries - 1 THEN "wait" ELSE "throw"

NextDelayConstant(delay) == delay

\* delay *= 2
NextDelay(delay) == delay * 2


(***************************************************************************)
(* Data: lessons, questions, quizzes, mindmaps, the user record.           *)
(***************************************************************************)
\* the lesson ids a LESSONS list (./constants) is drawn from
Lessons == {1, 2}

\* selectedLesson = null
NoLesson == 0

\* score = null
NoScore == -1

Null == [null |-> TRUE]

\* String.fromCharCode(65 + i) for the options of a choice question
Options == {"A", "B"}

\* A Question: id, type and answer as the AI returned them; `src' is the lesson
\* whose content the prompt carried (it stands for stem, material, analysis).
Q(id, type, answer, l) == [id |-> id, type |-> type, answer |-> answer, src |-> l]

\* The quizzes the AI service may answer with for lesson l.  The response
\* schema constrains neither the ids nor the number of questions.
QuizPool(l) ==
  { <<>>,
    <<Q("q1", "choice", "A", l), Q("q2", "material", "M", l)>>,
    <<Q("q1", "choice", "B", l), Q("q1", "material", "M", l)>> }

\* response.text || '' of the mindmap call for lesson l
EmptyText == [empty |-> TRUE, src |-> NoLesson]

MindmapPool(l) == {EmptyText, [empty |-> FALSE, src |-> l]}

\* {text, links} of the trends call: what the search finds at time t
TrendsPool(t) == {[text |-> "trends", at |-> t]}

\* JavaScript truthiness of a string
TruthyText(t) == ~t.empty

(***************************************************************************)
(* localStorage: key -> item.  An item is absent, or a string; the strings *)
(* the program writes are JSON.stringify(v) (and Date.now().toString());   *)
(* a string that is not JSON makes JSON.parse throw.                       *)
(***************************************************************************)
KeyUser == <<"history_user", 0>>

\* `cache_${key}' of getCachedData and setCachedData
CacheItem(key) == "cache_" \o key

\* the item a service function caches its result in
ServiceKey(kind, l) ==
  CASE kind = "questions" -> <<CacheItem("questions_lesson_"), l>>
    [] kind = "mindmap" -> <<CacheItem("mindmap_lesson_"), l>>
    [] OTHER -> <<CacheItem("exam_trends"), 0>>

KeyTrends == ServiceKey("trends", 0)

KeyTimestamp == <<"trends_timestamp", 0>>

KeyQuestions(l) == <<"cache_questions_lesson_", l>>

KeyMindmap(l) == <<"cache_mindmap_lesson_", l>>

Keys ==
  {KeyUser, KeyTrends, KeyTimestamp}
    \cup {KeyQuestions(l) : l \in Lessons} \cup {KeyMindmap(l) : l \in Lessons}
    \cup {ServiceKey(kind, l) : kind \in {"questions", "mindmap"}, l \in Lessons}

\* getItem returns null
Absent == [present |-> FALSE]

\* a stored string that is not valid JSON
Garbage == [present |-> TRUE, valid |-> FALSE]

\* JSON.stringify(v): a non-empty string that parses back to v
Stringify(v) == [present |-> TRUE, valid |-> TRUE, value |-> v]

\* JSON.parse(s) throws
ParseThrows(s) == ~s.valid

\* JSON.parse(s)
Parse(s) == s.value

\* `saved ?' / `if (cachedMM)': getItem's result is a non-empty string
Present(item) == item.present

(***************************************************************************)
(* calculateScore's arithmetic.                                            *)
(***************************************************************************)
NoAnswers == [id \in {} |-> "A"]

\* userAnswers[id] (undefined when the question was not answered)
AnswerOf(answers, id) == IF id \in DOMAIN answers THEN answers[id] ELSE "undefined"

IsChoice(q) == q.type = "choice"

\* userAnswers[q.id] === q.answer
IsCorrect(q, answers) == AnswerOf(answers, q.id) = q.answer

Indices(qs) == 1..Len(qs)

\* choiceTotal
ChoiceTotal(qs) == Cardinality({k \in Indices(qs) : IsChoice(qs[k])})

\* choiceCorrect
ChoiceCorrect(qs, answers) ==
  Cardinality({k \in Indices(qs) : IsChoice(qs[k]) /\ IsCorrect(qs[k], answers)})

IsCurrentWrong(q, answers) == ~(IsChoice(q) /\ IsCorrect(q, answers))

\* currentWrong: the choice questions answered wrongly or not at all, and every
\* question of another type, in quiz order
CurrentWrong(qs, answers) ==
  LET Wrong(q) == IsCurrentWrong(q, answers) IN SelectSeq(qs, Wrong)

RoundPercentFloor(c, t) == (100 * c) \div t

\* Math.round((c / t) * 100): the nearest integer, halves upwards.  The double
\* arithmetic agrees with the exact quotient for every t below 40.
RoundPercent(c, t) == (200 * c + t) \div (2 * t)

\* finalScore
FinalScore(qs, answers) ==
  IF ChoiceTotal(qs) > 0
    THEN RoundPercent(ChoiceCorrect(qs, answers), ChoiceTotal(qs))
    ELSE 100

IdsOf(qs) == {qs[k].id : k \in Indices(qs)}

\* currentWrong.filter(q => !user.wrongQuestions.find(wq => wq.id === q.id))
NewlyAddedWrongs(wrongQuestions, currentWrong) ==
  LET Fresh(q) == q.id \notin IdsOf(wrongQuestions) IN SelectSeq(currentWrong, Fresh)

\* user.quizScores[id] || 0
CurrentBest(quizScores, l) == IF l \in DOMAIN quizScores THEN quizScores[l] ELSE 0

MathMax(a, b) == IF a >= b THEN a ELSE b

\* { ...user.quizScores, [id]: Math.max(currentBest, finalScore) }
ScoresWith(quizScores, l, finalScore) ==
  [k \in DOMAIN quizScores \cup {l} |->
     IF k = l THEN MathMax(CurrentBest(quizScores, l), finalScore) ELSE quizScores[k]]

\* the record calculateScore passes to saveUserProgress
ScoredUser(u, l, qs, answers) ==
  [u EXCEPT
     !.quizScores = ScoresWith(u.quizScores, l, FinalScore(qs, answers)),
     !.wrongQuestions =
        u.wrongQuestions \o NewlyAddedWrongs(u.wrongQuestions, CurrentWrong(qs, answers))]

\* the record handleLogin builds (userId and lastActive, both read from the
\* clock and never read back, are left out)
NewUser(name) ==
  [userName |-> name, completedLessons |-> <<>>,
   quizScores |-> [l \in {} |-> 0], wrongQuestions |-> <<>>]

SeqContains(seq, x) == \E k \in 1..Len(seq) : seq[k] = x

VARIABLES
  build,          \* which revision pair runs (see the head of the module)
  lessons,        \* the ids of LESSONS (./constants), the lesson cards rendered
  slots,          \* how many service calls may be unsettled at once (the program
                  \* sets no limit; the exploration does)
  rt,             \* one run of retryWithBackoff, with the history of its calls and waits
  localStorage,   \* the browser's local storage: key -> item
  now,            \* Date.now()
  user,           \* App state: UserProgress | null
  activeTab,      \* App state
  selectedLesson, \* App state: the selected lesson's id, or NoLesson
  mindmapContent, \* App state
  questions,      \* App state: the displayed quiz
  userAnswers,    \* App state: question id -> chosen option
  score,          \* App state: number | null
  loading,        \* App state
  apiError,       \* App state (part_002): the banner's text, "none" for null
  trends,         \* App state
  prefetchQueue,  \* part_003: the ref holding the prefetched lesson ids
  pending,        \* the service calls not settled yet, each with its continuation
  uncaught,       \* "none", "rejection" (an unhandled promise rejection) or
                  \* "render" (an error thrown in an effect: React unmounts the tree)
  returned,       \* the service function called directly (not through the App):
                  \* its arguments and, once its promise has settled, its result
  typed,          \* the ids of the material questions whose <textarea> holds text
                  \* (the textarea is uncontrolled: the text lives in the DOM only)
  visibleHints    \* App state: the ids whose hint is shown

shownVars == <<selectedLesson, mindmapContent, questions, userAnswers,
               score, loading, apiError, trends, prefetchQueue>>

uiVars == <<activeTab, selectedLesson, mindmapContent, questions, userAnswers,
            score, loading, apiError, trends, prefetchQueue>>

appVars == <<build, lessons, slots, localStorage, now, user, uiVars, pending, uncaught, returned,
             typed, visibleHints>>

vars == <<rt, appVars>>

\* no service function has been called directly
NotCalled == [status |-> "idle"]

\* retryWithBackoff not running
RtIdle ==
  [maxRetries |-> 0, i |-> 0, delay |-> BaseDelay, pc |-> "idle", inLoop |-> FALSE,
   calls |-> 0, waits |-> <<>>, outcomes |-> <<>>, result |-> "pending",
   error |-> NoError]

(***************************************************************************)
(* The App component.                                                      *)
(***************************************************************************)
Tabs == {"study", "practice", "wrong", "trends", "profile"}

\* what the user may type into the login form
LoginNames == {"", "amy"}

\* !loginName.trim()
IsBlank(name) == name = ""

\* one hour, the age up to which part_001 serves the cached trends
HourMs == 3600000

\* largest number of hours the clock advances
MaxHours == 1

FreshStorage == [k \in Keys |-> Absent]

\* localStorage.setItem(k, s)
SetItem(ls, k, s) == [ls EXCEPT ![k] = s]

\* localStorage.removeItem(k)
RemoveItem(ls, k) == [ls EXCEPT ![k] = Absent]

\* the main UI is rendered: a user is logged in and the tree is mounted;
\* the buttons stay reachable from the keyboard while the overlay is shown
MainUi == user # Null /\ uncaught # "render"

\* the loading overlay (fixed inset-0 z-50) covers the page: elements that
\* only listen to the pointer (the lesson cards' onClick, onMouseEnter)
\* cannot be reached while it is shown
PointerReaches == MainUi /\ ~loading

Owners == 1..slots

FreeOwners == Owners \ {c.owner : c \in pending}

NewOwner == CHOOSE o \in FreeOwners : \A o2 \in FreeOwners : o <= o2

\* a service call whose network request is in flight; `snap' is the `user' of
\* the render whose handler awaits it (handleReview reads it after the await)
NewCall(owner, op, kind, l, snap) ==
  [owner |-> owner, op |-> op, kind |-> kind, lesson |-> l, snap |-> snap,
   i |-> 0, phase |-> "inflight"]

LoadedUserNever(ls) == Null

\* the useEffect of the first render: restore the user from 'history_user'
LoadedUser(ls) ==
  IF Present(ls[KeyUser]) /\ ~ParseThrows(ls[KeyUser]) THEN Parse(ls[KeyUser]) ELSE Null

StartupUncaught(ls) ==
  IF Present(ls[KeyUser]) /\ ParseThrows(ls[KeyUser]) THEN "render" ELSE "none"

\* the page (re)loads with local storage ls: useState's initial values, no
\* handler of the old page survives, then the useEffect
Reloaded(ls) ==
  /\ activeTab' = "study"
  /\ selectedLesson' = NoLesson
  /\ mindmapContent' = EmptyText
  /\ questions' = <<>>
  /\ userAnswers' = NoAnswers
  /\ score' = NoScore
  /\ loading' = FALSE
  /\ apiError' = "none"
  /\ trends' = Null
  /\ prefetchQueue' = {}
  /\ pending' = {}
  /\ typed' = {}
  /\ visibleHints' = {}
  /\ user' = LoadedUser(ls)
  /\ uncaught' = StartupUncaught(ls)

SaveUserProgressMemoryOnly(updated) ==
  /\ user' = updated
  /\ localStorage' = localStorage

\* saveUserProgress(updated)
SaveUserProgress(updated) ==
  /\ user' = updated
  /\ localStorage' = SetItem(localStorage, KeyUser, Stringify(updated))

\* handleLogin
HandleLogin ==
  /\ user = Null /\ uncaught # "render"
  /\ \E name \in LoginNames :
       IF IsBlank(name)
         THEN UNCHANGED <<user, localStorage>>
         ELSE SaveUserProgress(NewUser(name))
  /\ UNCHANGED <<visibleHints, typed, returned, build, lessons, slots, rt, now, uiVars, pending, uncaught>>

\* setActiveTab(t), from the nav buttons.  Switching tabs changes nothing else
\* and is always possible in the main UI, so a gesture of the user is modelled
\* as switching to the tab that holds a control and then using the control.
SetActiveTab(t) == activeTab' = t

\* `user && !user.completedLessons.includes(lesson.id)'
ReviewSaves(u, l) == u # Null /\ ~SeqContains(u.completedLessons, l)

\* { ...user, completedLessons: [...user.completedLessons, lesson.id] }
ReviewedUser(u, l) == [u EXCEPT !.completedLessons = Append(@, l)]

\* the end of handleReview, on storage ls: mark the lesson completed
ReviewTail(u, l, ls) ==
  IF ReviewSaves(u, l)
    THEN /\ user' = ReviewedUser(u, l)
         /\ localStorage' = SetItem(ls, KeyUser, Stringify(ReviewedUser(u, l)))
    ELSE /\ user' = user
         /\ localStorage' = ls

\* handleReview(lesson), up to its await or, with a cached mindmap, to its end
HandleReview ==
  /\ PointerReaches /\ SetActiveTab("study")
  /\ \E l \in lessons :
       LET cachedMM == localStorage[KeyMindmap(l)]
       IN  /\ selectedLesson' = l
           /\ apiError' = "none"
           /\ IF Present(cachedMM)
                THEN IF ParseThrows(cachedMM)
                       THEN /\ uncaught' = "rejection"
                            /\ UNCHANGED <<mindmapContent, user, localStorage,
                                           loading, pending>>
                       ELSE /\ mindmapContent' = Parse(cachedMM)
                            /\ ReviewTail(user, l, localStorage)
                            /\ UNCHANGED <<loading, pending, uncaught>>
                ELSE /\ FreeOwners # {}
                     /\ loading' = TRUE
                     /\ pending' = pending \cup
                          {NewCall(NewOwner, "review", "mindmap", l, user)}
                     /\ UNCHANGED <<mindmapContent, user, localStorage, uncaught>>
  /\ typed' = {}
  /\ UNCHANGED <<visibleHints, returned, build, lessons, slots, rt, now, questions, userAnswers, score, trends,
                 prefetchQueue>>

\* handleStartPractice(lesson, forceNew), up to its await or its return
StartPractice(l, forceNew) ==
  LET cachedQs == localStorage[KeyQuestions(l)]
  IN  /\ selectedLesson' = l
      /\ activeTab' = "practice"
      /\ userAnswers' = NoAnswers
      /\ score' = NoScore
      /\ apiError' = "none"
      /\ IF ~forceNew /\ Present(cachedQs)
           THEN IF ParseThrows(cachedQs)
                  THEN /\ uncaught' = "rejection"
                       /\ UNCHANGED <<questions, loading, pending>>
                  ELSE /\ questions' = Parse(cachedQs)
                       /\ UNCHANGED <<loading, pending, uncaught>>
           ELSE /\ FreeOwners # {}
                /\ loading' = TRUE
                /\ pending' = pending \cup
                     {NewCall(NewOwner, "practice", "questions", l, Null)}
                /\ UNCHANGED <<questions, uncaught>>
      /\ typed' = IF forceNew THEN typed ELSE {}
      /\ visibleHints' = {}
      /\ UNCHANGED <<returned, build, lessons, slots, rt, localStorage, now, user, mindmapContent, trends,
                     prefetchQueue>>

\* the quiz, its option buttons and its submit bar are rendered
QuizShown == MainUi /\ selectedLesson # NoLesson /\ Len(questions) > 0

SubmitBarAlways == QuizShown

\* {score === null && (...)}: the bar with the new-batch and the submit button
SubmitBarShown == QuizShown /\ score = NoScore

\* the study tab's practice button: handleStartPractice(selectedLesson)
HandleStartPractice ==
  /\ MainUi /\ selectedLesson # NoLesson
  /\ StartPractice(selectedLesson, FALSE)

\* the practice tab's "another batch" button: handleStartPractice(selectedLesson, true)
HandleNewBatch ==
  /\ SubmitBarShown
  /\ StartPractice(selectedLesson, TRUE)

\* an option button: score === null && setUserAnswers(prev => ({...prev, [q.id]: letter}))
SetUserAnswer ==
  /\ QuizShown /\ score = NoScore /\ SetActiveTab("practice")
  /\ \E k \in Indices(questions), opt \in Options :
       /\ IsChoice(questions[k])
       /\ userAnswers' = [id \in DOMAIN userAnswers \cup {questions[k].id} |->
                            IF id = questions[k].id THEN opt ELSE userAnswers[id]]
  /\ UNCHANGED <<visibleHints, typed, returned, build, lessons, slots, rt, localStorage, now, user, selectedLesson,
                 mindmapContent, questions, score, loading, apiError, trends,
                 prefetchQueue, pending, uncaught>>

\* the user types into the textarea of a material question (disabled once
\* the quiz is scored); no handler is attached to it
TypeMaterialAnswer ==
  /\ QuizShown /\ score = NoScore /\ SetActiveTab("practice")
  /\ \E k \in Indices(questions) :
       /\ ~IsChoice(questions[k])
       /\ typed' = typed \cup {questions[k].id}
  /\ UNCHANGED <<visibleHints, returned, build, lessons, slots, rt, localStorage, now, user, selectedLesson,
                 mindmapContent, questions, userAnswers, score, loading, apiError, trends,
                 prefetchQueue, pending, uncaught>>

\* toggleHint(q.id), from the hint button of a material question
ToggleHint ==
  /\ QuizShown /\ SetActiveTab("practice")
  /\ \E k \in Indices(questions) :
       /\ ~IsChoice(questions[k])
       /\ visibleHints' = IF questions[k].id \in visibleHints
                             THEN visibleHints \ {questions[k].id}
                             ELSE visibleHints \cup {questions[k].id}
  /\ UNCHANGED <<typed, returned, build, lessons, slots, rt, localStorage, now, user,
                 selectedLesson, mindmapContent, questions, userAnswers, score, loading,
                 apiError, trends, prefetchQueue, pending, uncaught>>

\* calculateScore
CalculateScore ==
  /\ SubmitBarShown /\ SetActiveTab("practice")
  /\ score' = FinalScore(questions, userAnswers)
  /\ SaveUserProgress(ScoredUser(user, selectedLesson, questions, userAnswers))
  /\ UNCHANGED <<visibleHints, typed, returned, build, lessons, slots, rt, now, selectedLesson, mindmapContent,
                 questions, userAnswers, loading, apiError, trends, prefetchQueue,
                 pending, uncaught>>

\* user.wrongQuestions.filter(q => q.id !== id)
WithoutId(wrongQuestions, id) ==
  LET Other(q) == q.id # id IN SelectSeq(wrongQuestions, Other)

\* clearWrongQuestion(id), from the wrong tab's list
ClearWrongQuestion ==
  /\ MainUi /\ SetActiveTab("wrong")
  /\ \E id \in IdsOf(user.wrongQuestions) :
       SaveUserProgress([user EXCEPT !.wrongQuestions = WithoutId(@, id)])
  /\ typed' = {}
  /\ UNCHANGED <<visibleHints, returned, build, lessons, slots, rt, now, shownVars, pending, uncaught>>

\* the banner's close button: setApiError(null)
DismissError ==
  /\ MainUi /\ apiError # "none"
  /\ apiError' = "none"
  /\ UNCHANGED <<visibleHints, typed, returned, build, lessons, slots, rt, localStorage, now, user, activeTab, selectedLesson,
                 mindmapContent, questions, userAnswers, score, loading, trends,
                 prefetchQueue, pending, uncaught>>

\* the profile tab's logout button: removeItem('history_user'); location.reload()
Logout ==
  /\ MainUi
  /\ localStorage' = RemoveItem(localStorage, KeyUser)
  /\ Reloaded(RemoveItem(localStorage, KeyUser))
  /\ UNCHANGED <<returned, build, lessons, slots, rt, now>>

\* the browser reloads the page
Reload ==
  /\ Reloaded(localStorage)
  /\ UNCHANGED <<returned, build, lessons, slots, rt, now, localStorage>>

\* time passes
Tick ==
  /\ now < MaxHours * HourMs
  /\ now' = now + HourMs
  /\ UNCHANGED <<visibleHints, typed, returned, build, lessons, slots, rt, localStorage, user, uiVars, pending, uncaught>>

(***************************************************************************)
(* The service functions (generateQuestionsFromContent,                    *)
(* generateStudyMindmap, searchGuangzhouExamTrends) and their callers.     *)
(***************************************************************************)
\* parseInt(lastUpdate) is a number (NaN compares false with everything)
TimestampFresh(ts) == Present(ts) /\ ~ParseThrows(ts) /\ now - Parse(ts) < HourMs

\* searchGuangzhouExamTrends returns the cached result: `if (cached)' in
\* part_000, `if (cached && lastUpdate && Date.now() - parseInt(lastUpdate) < 3600000)'
\* in part_001
TrendsCacheHit ==
  /\ Present(localStorage[KeyTrends])
  /\ build = 1 => TimestampFresh(localStorage[KeyTimestamp])

\* getCachedData('exam_trends') throws
TrendsCacheThrows == Present(localStorage[KeyTrends]) /\ ParseThrows(localStorage[KeyTrends])

\* the trends tab's fetch button (shown while trends is null) and, in
\* part_003, its refresh button
FetchTrends ==
  /\ MainUi /\ SetActiveTab("trends")
  /\ trends = Null \/ build = 1
  /\ apiError' = "none"
  /\ IF TrendsCacheThrows
       THEN \* the rejection is caught by the handler; no '429' in a SyntaxError
            /\ loading' = FALSE
            /\ UNCHANGED <<trends, pending>>
       ELSE IF TrendsCacheHit
         THEN /\ trends' = Parse(localStorage[KeyTrends])
              /\ loading' = FALSE
              /\ UNCHANGED pending
         ELSE /\ FreeOwners # {}
              /\ loading' = TRUE
              /\ pending' = pending \cup
                   {NewCall(NewOwner, "trends", "trends", NoLesson, Null)}
              /\ UNCHANGED trends
  /\ typed' = {}
  /\ UNCHANGED <<visibleHints, returned, build, lessons, slots, rt, localStorage, now, user, selectedLesson,
                 mindmapContent, questions, userAnswers, score, prefetchQueue,
                 uncaught>>

QuestionsCallAlways(l) == TRUE

\* generateQuestionsFromContent(l, content) goes to the network: no cache entry
QuestionsCallNeeded(l) == ~Present(localStorage[ServiceKey("questions", l)])

\* generateStudyMindmap(l, content) goes to the network: no cache entry, or
\* one that parses to the empty string (`if (cached)' is false for '')
MindmapCallNeeded(l) ==
  LET saved == localStorage[ServiceKey("mindmap", l)]
  IN  \/ ~Present(saved)
      \/ ~ParseThrows(saved) /\ ~TruthyText(Parse(saved))

PrefetchCallsWithTrends(l, owner) ==
  {NewCall(owner, "prefetch", "questions", l, Null),
   NewCall(owner, "prefetch", "mindmap", l, Null),
   NewCall(owner, "prefetch", "trends", NoLesson, Null)}

\* the calls prefetchLessonData starts without awaiting either:
\* generateQuestionsFromContent(...).catch(...); generateStudyMindmap(...).catch(...)
PrefetchCalls(l, owner) ==
  (IF QuestionsCallNeeded(l)
     THEN {NewCall(owner, "prefetch", "questions", l, Null)} ELSE {})
    \cup
  (IF MindmapCallNeeded(l)
     THEN {NewCall(owner, "prefetch", "mindmap", l, Null)} ELSE {})

\* part_003: prefetchLessonData(lesson), on onMouseEnter of a lesson card;
\* a rejection of either call is swallowed by .catch(() => {})
PrefetchLessonData ==
  /\ build = 1 /\ PointerReaches /\ SetActiveTab("study")
  /\ \E l \in lessons :
       IF l \in prefetchQueue
         THEN UNCHANGED <<prefetchQueue, pending>>
         ELSE /\ prefetchQueue' = prefetchQueue \cup {l}
              /\ FreeOwners # {}
              /\ pending' = pending \cup PrefetchCalls(l, NewOwner)
  /\ typed' = {}
  /\ UNCHANGED <<visibleHints, returned, build, lessons, slots, rt, localStorage, now, user, selectedLesson,
                 mindmapContent, questions, userAnswers, score, loading, apiError,
                 trends, uncaught>>

\* what the AI service may answer a call with
PayloadPool(c) ==
  CASE c.kind = "questions" -> QuizPool(c.lesson)
    [] c.kind = "mindmap" -> MindmapPool(c.lesson)
    [] OTHER -> TrendsPool(now)

ServiceWriteStampsAll(ls, c, payload) ==
  SetItem(SetItem(ls, ServiceKey(c.kind, c.lesson), Stringify(payload)),
          KeyTimestamp, Stringify(now))

\* setCachedData(cacheKey, result) of the call (and, in part_001, the
\* timestamp of the trends)
ServiceWrite(ls, c, payload) ==
  LET written == SetItem(ls, ServiceKey(c.kind, c.lesson), Stringify(payload))
  IN  IF c.kind = "trends" /\ build = 1
        THEN SetItem(written, KeyTimestamp, Stringify(now))
        ELSE written

\* the banner a handler's catch block sets in part_002 (part_003 only logs):
\* "rateLimited" stands for the three texts shown for a '429', "failed" for
\* handleStartPractice's text for every other error
BannerFor(op, e) ==
  IF build = 1 THEN apiError
  ELSE IF MessageIncludes(e, "429") THEN "rateLimited"
  ELSE IF op = "practice" THEN "failed"
  ELSE apiError

SettledLoadingOnlyOnSuccess(ok) == IF ok THEN FALSE ELSE loading

\* finally { setLoading(false) } (part_003's refresh button: in then and in catch)
SettledLoading(ok) == FALSE

\* the textareas that stay mounted when the list of questions is rendered
\* anew as qs: the question cards are keyed by q.id
StillMounted(ids, qs) ==
  {id \in ids : \E k \in Indices(qs) : qs[k].id = id /\ ~IsChoice(qs[k])}

\* the settled promise of the service function called directly
\* (response: "json" for a text that was parsed, "empty" for no text, "error"
\* for a failed request or a text that is not JSON)
Returned(c, ok, value, e) ==
  [status |-> "done", kind |-> c.kind, lesson |-> c.lesson,
   forceNew |-> returned.forceNew, hit |-> FALSE, ok |-> ok, value |-> value,
   response |-> IF e = NoError THEN "json"
                ELSE IF e = EmptyResponse THEN "empty" ELSE "error"]

\* The awaited service call c settles (ok: with value; otherwise: with error
\* e) on storage ls, and the handler that awaits it runs to its end.  With
\* ok, e tells what the value was made from: NoError, EmptyResponse, or the
\* error that the service function caught.
Complete(c, ok, value, e, ls) ==
  /\ pending' = pending \ {c}
  /\ CASE c.op = "review" ->
            /\ mindmapContent' = IF ok THEN value ELSE mindmapContent
            /\ apiError' = IF ok THEN apiError ELSE BannerFor("review", e)
            /\ loading' = SettledLoading(ok)
            /\ ReviewTail(c.snap, c.lesson, ls)
            /\ UNCHANGED <<questions, trends, returned>>
       [] c.op = "practice" ->
            /\ questions' = IF ok THEN value ELSE questions
            /\ apiError' = IF ok THEN apiError ELSE BannerFor("practice", e)
            /\ loading' = SettledLoading(ok)
            /\ localStorage' = ls
            /\ UNCHANGED <<mindmapContent, trends, user, returned>>
       [] c.op = "trends" ->
            /\ trends' = IF ok THEN value ELSE trends
            /\ apiError' = IF ok THEN apiError ELSE BannerFor("trends", e)
            /\ loading' = SettledLoading(ok)
            /\ localStorage' = ls
            /\ UNCHANGED <<mindmapContent, questions, user, returned>>
       [] c.op = "direct" ->
            /\ returned' = Returned(c, ok, value, e)
            /\ localStorage' = ls
            /\ UNCHANGED <<mindmapContent, questions, trends, user, apiError, loading>>
       [] OTHER ->
            /\ localStorage' = ls
            /\ UNCHANGED <<mindmapContent, questions, trends, user, apiError, loading,
                           returned>>
  /\ typed' = IF c.op = "practice" THEN StillMounted(typed, questions') ELSE typed
  /\ UNCHANGED <<visibleHints, build, lessons, slots, rt, now, activeTab, selectedLesson, userAnswers, score,
                 prefetchQueue, uncaught>>

\* the AI service answers a request
NetworkResolves ==
  \E c \in pending :
    /\ c.phase = "inflight"
    /\ \/ \E payload \in PayloadPool(c) :
            Complete(c, TRUE, payload, NoError, ServiceWrite(localStorage, c, payload))
       \/ \* JSON.parse(jsonStr || '[]') of an empty response text
          /\ c.kind = "questions"
          /\ Complete(c, TRUE, <<>>, EmptyResponse, ServiceWrite(localStorage, c, <<>>))

FailureStorageCachesEmpty(c) == ServiceWrite(localStorage, c, <<>>)

\* local storage after a failed call: setCachedData comes after the await and
\* after JSON.parse, so nothing is written
FailureStorage(c) == localStorage

\* A request fails with e (a response text that is not JSON fails the same
\* way, with a SyntaxError whose message holds no marker).  part_000 retries
\* through retryWithBackoff; part_001's generateQuestionsFromContent catches
\* the error and returns [].
NetworkRejects ==
  \E c \in pending, e \in Errors :
    /\ c.phase = "inflight"
    /\ IF build = 2 /\ RetryDecision(e, c.i, DefaultMaxRetries) = "wait"
         THEN /\ pending' = (pending \ {c}) \cup {[c EXCEPT !.phase = "backoff"]}
              /\ UNCHANGED <<visibleHints, typed, returned, build, lessons, slots, rt, localStorage, now, user, uiVars, uncaught>>
         ELSE IF build = 1 /\ c.kind = "questions"
           THEN Complete(c, TRUE, <<>>, e, FailureStorage(c))
           ELSE Complete(c, FALSE, <<>>, e, FailureStorage(c))

\* retryWithBackoff's timer fires and the next attempt starts
BackoffElapses ==
  \E c \in pending :
    /\ c.phase = "backoff"
    /\ pending' = (pending \ {c}) \cup {[c EXCEPT !.phase = "inflight", !.i = c.i + 1]}
    /\ UNCHANGED <<visibleHints, typed, returned, build, lessons, slots, rt, localStorage, now, user, uiVars, uncaught>>

Init ==
  /\ build \in {1, 2}
  /\ lessons = {1}
  /\ slots = MaxPending
  /\ rt = RtIdle
  /\ localStorage = FreshStorage
  /\ now = 0
  /\ user = Null
  /\ activeTab = "study"
  /\ selectedLesson = NoLesson
  /\ mindmapContent = EmptyText
  /\ questions = <<>>
  /\ userAnswers = NoAnswers
  /\ score = NoScore
  /\ loading = FALSE
  /\ apiError = "none"
  /\ trends = Null
  /\ prefetchQueue = {}
  /\ pending = {}
  /\ uncaught = "none"
  /\ returned = NotCalled
  /\ typed = {}
  /\ visibleHints = {}

\* the learning loop: login, review, practice, scoring, the wrong-question list
Next ==
  \/ HandleLogin \/ HandleReview \/ HandleStartPractice
  \/ HandleNewBatch \/ SetUserAnswer \/ ToggleHint \/ CalculateScore
  \/ ClearWrongQuestion \/ DismissError \/ Logout \/ Reload
  \/ NetworkResolves \/ NetworkRejects \/ BackoffElapses

Spec == Init /\ [][Next]_vars

\* the callers of the AI service and the cache: review, practice, prefetch, trends
NextService ==
  \/ HandleLogin \/ HandleReview \/ HandleStartPractice
  \/ HandleNewBatch \/ DismissError \/ Logout \/ Reload \/ Tick \/ FetchTrends
  \/ PrefetchLessonData \/ NetworkResolves \/ NetworkRejects \/ BackoffElapses

SpecService == Init /\ [][NextService]_vars

(***************************************************************************)
(* Local storage edited from outside the program (the browser's developer  *)
(* tools, another script of the origin): one item is overwritten with a    *)
(* string that is not JSON.                                                *)
(***************************************************************************)
TamperedKeys ==
  {KeyUser} \cup {KeyQuestions(l) : l \in lessons} \cup {KeyMindmap(l) : l \in lessons}

Tamper ==
  /\ \A k \in Keys : localStorage[k] # Garbage
  /\ \E k \in TamperedKeys : localStorage' = SetItem(localStorage, k, Garbage)
  /\ UNCHANGED <<visibleHints, typed, returned, build, lessons, slots, rt, now, user, uiVars, pending, uncaught>>

NextTamper == Next \/ Tamper

SpecTamper == Init /\ [][NextTamper]_vars

(***************************************************************************)
(* calculateScore on bounded quizzes: the quiz is drawn by Init, the user  *)
(* answers and submits.                                                    *)
(***************************************************************************)
ScoreIds == <<"q1", "q2", "q3", "q4", "q5", "q6", "q7", "q8", "q9", "q10", "q11", "q12">>

\* n choice questions whose answers alternate between "A" and "B"
ChoiceQuiz(n) ==
  [k \in 1..n |-> Q(ScoreIds[k], "choice", IF k % 2 = 1 THEN "A" ELSE "B", 1)]

MaterialQuestion == Q("m1", "material", "M", 1)

\* the quizzes of the scoring harness: 0..MaxChoice choice questions (the
\* prompt asks for 10), alone or followed by the material question
ScoreQuizzes ==
  UNION { {ChoiceQuiz(n), ChoiceQuiz(n) \o <<MaterialQuestion>>} : n \in 0..MaxChoice }
    \ {<<>>}

InitScore ==
  /\ build = 1
  /\ lessons = {1}
  /\ slots = MaxPending
  /\ rt = RtIdle
  /\ localStorage = SetItem(FreshStorage, KeyUser, Stringify(NewUser("amy")))
  /\ now = 0
  /\ user = NewUser("amy")
  /\ activeTab = "practice"
  /\ selectedLesson = 1
  /\ mindmapContent = EmptyText
  /\ questions \in ScoreQuizzes
  /\ userAnswers = NoAnswers
  /\ score = NoScore
  /\ loading = FALSE
  /\ apiError = "none"
  /\ trends = Null
  /\ prefetchQueue = {}
  /\ pending = {}
  /\ uncaught = "none"
  /\ returned = NotCalled
  /\ typed = {}
  /\ visibleHints = {}

NextScore == SetUserAnswer \/ CalculateScore

SpecScore == InitScore /\ [][NextScore]_vars

(***************************************************************************)
(* The service functions called directly, one call at a time, on the       *)
(* storage earlier calls have left.                                        *)
(***************************************************************************)
ServiceCacheHitIgnoresForceNew(kind, l, forceNew) ==
  CASE kind = "questions" -> ~QuestionsCallNeeded(l)
    [] kind = "mindmap" -> ~MindmapCallNeeded(l)
    [] OTHER -> TrendsCacheHit

\* the function returns at its cache check, before any request
ServiceCacheHit(kind, l, forceNew) ==
  CASE kind = "questions" -> ~forceNew /\ ~QuestionsCallNeeded(l)
    [] kind = "mindmap" -> ~MindmapCallNeeded(l)
    [] OTHER -> TrendsCacheHit

\* the function is called: it returns the cached value or sends a request
ServiceCall(kind, l, forceNew) ==
  /\ returned.status # "pending"
  /\ FreeOwners # {}
  /\ IF ServiceCacheHit(kind, l, forceNew)
       THEN /\ returned' = [status |-> "done", kind |-> kind, lesson |-> l,
                            forceNew |-> forceNew, hit |-> TRUE, ok |-> TRUE,
                            value |-> Parse(localStorage[ServiceKey(kind, l)])]
            /\ UNCHANGED pending
       ELSE /\ returned' = [status |-> "pending", kind |-> kind, lesson |-> l,
                            forceNew |-> forceNew]
            /\ pending' = pending \cup {NewCall(NewOwner, "direct", kind, l, Null)}
  /\ UNCHANGED <<visibleHints, typed, build, lessons, slots, rt, localStorage, now, user, uiVars, uncaught>>

\* generateQuestionsFromContent(l, content, forceNew)
CallQuestions == \E l \in lessons, forceNew \in BOOLEAN : ServiceCall("questions", l, forceNew)

\* generateStudyMindmap(l, content)
CallMindmap == \E l \in lessons : ServiceCall("mindmap", l, FALSE)

\* searchGuangzhouExamTrends()
CallTrends == \E l \in {NoLesson} : ServiceCall("trends", l, FALSE)

InitCache ==
  /\ build \in {1, 2}
  /\ lessons = Lessons
  /\ slots = MaxPending
  /\ rt = RtIdle
  /\ localStorage = SetItem(FreshStorage, KeyUser, Stringify(NewUser("amy")))
  /\ now = 0
  /\ user = NewUser("amy")
  /\ activeTab = "study"
  /\ selectedLesson = NoLesson
  /\ mindmapContent = EmptyText
  /\ questions = <<>>
  /\ userAnswers = NoAnswers
  /\ score = NoScore
  /\ loading = FALSE
  /\ apiError = "none"
  /\ trends = Null
  /\ prefetchQueue = {}
  /\ pending = {}
  /\ uncaught = "none"
  /\ returned = NotCalled
  /\ typed = {}
  /\ visibleHints = {}

NextCache ==
  \/ CallQuestions
  \/ CallMindmap
  \/ CallTrends
  \/ NetworkResolves
  \/ NetworkRejects
  \/ BackoffElapses
  \/ Tick

SpecCache == InitCache /\ [][NextCache]_vars

(***************************************************************************)
(* The learning loop over two lessons, for a user who is logged in and     *)
(* whose requests succeed.                                                 *)
(***************************************************************************)
InitLessons == InitCache

NextLessons ==
  \/ HandleReview
  \/ HandleStartPractice
  \/ SetUserAnswer
  \/ TypeMaterialAnswer
  \/ CalculateScore
  \/ NetworkResolves

SpecLessons == InitLessons /\ [][NextLessons]_vars

(***************************************************************************)
(* Reviews and practice over two lessons with one more unsettled call: a   *)
(* handleReview can still be awaiting its response while another handler   *)
(* finishes and hides the loading overlay.                                 *)
(***************************************************************************)
InitReview ==
  /\ build \in {1, 2}
  /\ lessons = Lessons
  /\ slots = MaxPending + 1
  /\ rt = RtIdle
  /\ localStorage = SetItem(FreshStorage, KeyUser, Stringify(NewUser("amy")))
  /\ now = 0
  /\ user = NewUser("amy")
  /\ activeTab = "study"
  /\ selectedLesson = NoLesson
  /\ mindmapContent = EmptyText
  /\ questions = <<>>
  /\ userAnswers = NoAnswers
  /\ score = NoScore
  /\ loading = FALSE
  /\ apiError = "none"
  /\ trends = Null
  /\ prefetchQueue = {}
  /\ pending = {}
  /\ uncaught = "none"
  /\ returned = NotCalled
  /\ typed = {}
  /\ visibleHints = {}

NextReview ==
  \/ HandleReview
  \/ HandleStartPractice
  \/ NetworkResolves
  \/ NetworkRejects

SpecReview == InitReview /\ [][NextReview]_vars

(***************************************************************************)
(* The profile tab's average, over the best scores calculateScore can have *)
(* recorded for the lessons.                                               *)
(***************************************************************************)
MathRoundDown(num, den) == num \div den

\* Math.round(num / den) for num >= 0, den > 0: the nearest integer, halves
\* upwards
MathRound(num, den) == (2 * num + den) \div (2 * den)

\* Object.values(quizScores).reduce((a, b) => a + b, 0)
RECURSIVE SumScores(_)
SumScores(quizScores) ==
  IF DOMAIN quizScores = {}
    THEN 0
    ELSE LET l == CHOOSE k \in DOMAIN quizScores : TRUE
         IN  quizScores[l] + SumScores([k \in DOMAIN quizScores \ {l} |-> quizScores[k]])

\* the number the profile tab shows in front of "%"
ProfileAverage(quizScores) ==
  IF Cardinality(DOMAIN quizScores) = 0
    THEN 0
    ELSE MathRound(SumScores(quizScores), Cardinality(DOMAIN quizScores))

\* the values of finalScore for quizzes of up to MaxChoice choice questions
RecordableScores ==
  {100} \cup UNION { {RoundPercent(c, t) : c \in 0..t} : t \in 1..MaxChoice }

\* the users calculateScore can have saved: a best score for some lessons
ScoredUsers ==
  UNION { {[NewUser("amy") EXCEPT !.quizScores = qs] : qs \in [ls -> RecordableScores]} :
          ls \in SUBSET Lessons }

InitProfile ==
  /\ build \in {1, 2}
  /\ lessons = Lessons
  /\ slots = MaxPending
  /\ rt = RtIdle
  /\ user \in ScoredUsers
  /\ localStorage = SetItem(FreshStorage, KeyUser, Stringify(user))
  /\ now = 0
  /\ activeTab = "study"
  /\ selectedLesson = NoLesson
  /\ mindmapContent = EmptyText
  /\ questions = <<>>
  /\ userAnswers = NoAnswers
  /\ score = NoScore
  /\ loading = FALSE
  /\ apiError = "none"
  /\ trends = Null
  /\ prefetchQueue = {}
  /\ pending = {}
  /\ uncaught = "none"
  /\ returned = NotCalled
  /\ typed = {}
  /\ visibleHints = {}

\* a nav button: setActiveTab(tab)
OpenTab ==
  /\ MainUi
  /\ \E t \in Tabs : SetActiveTab(t)
  /\ UNCHANGED <<visibleHints, typed, returned, build, lessons, slots, rt, localStorage, now,
                 user, shownVars, pending, uncaught>>

NextProfile == OpenTab \/ Reload

SpecProfile == InitProfile /\ [][NextProfile]_vars

(***************************************************************************)
(* retryWithBackoff as a state machine.  pc: "start" before the call,      *)
(* "attempt" while fn() is awaited, "wait" while the timer is awaited,     *)
(* "done" once the returned promise has settled.                           *)
(***************************************************************************)
\* the loop head `i < maxRetries' followed by fn(), or the final `return fn()'
RtInvoke(r) ==
  [r EXCEPT !.pc = "attempt", !.inLoop = (r.i < r.maxRetries), !.calls = r.calls + 1]

RetryStart ==
  /\ rt.pc = "start"
  /\ UNCHANGED appVars
  /\ rt' = RtInvoke(rt)

\* fn() resolves: return await fn()
RetryFnResolves ==
  /\ rt.pc = "attempt"
  /\ UNCHANGED appVars
  /\ rt' = [rt EXCEPT !.pc = "done", !.result = "ok",
                      !.outcomes = Append(rt.outcomes, NoError)]

\* fn() rejects with e; a retry starts the timer: setTimeout(resolve, delay)
RetryFnRejects ==
  /\ rt.pc = "attempt"
  /\ UNCHANGED appVars
  /\ \E e \in Errors :
       LET r == [rt EXCEPT !.outcomes = Append(rt.outcomes, e)]
       IN  IF rt.inLoop /\ RetryDecision(e, rt.i, rt.maxRetries) = "wait"
             THEN rt' = [r EXCEPT !.pc = "wait", !.waits = Append(rt.waits, rt.delay)]
             ELSE rt' = [r EXCEPT !.pc = "done", !.result = "error", !.error = e]

\* the timer fires: delay *= 2; continue (i++), then the loop head
RetryTimerFires ==
  /\ rt.pc = "wait"
  /\ UNCHANGED appVars
  /\ rt' = RtInvoke([rt EXCEPT !.delay = NextDelay(rt.delay), !.i = rt.i + 1])

InitRetry ==
  /\ \E m \in 0..MaxRetriesArg : rt = [RtIdle EXCEPT !.maxRetries = m, !.pc = "start"]
  /\ build = 2
  /\ lessons = {1}
  /\ slots = MaxPending
  /\ localStorage = FreshStorage
  /\ now = 0
  /\ user = Null
  /\ activeTab = "study"
  /\ selectedLesson = NoLesson
  /\ mindmapContent = EmptyText
  /\ questions = <<>>
  /\ userAnswers = NoAnswers
  /\ score = NoScore
  /\ loading = FALSE
  /\ apiError = "none"
  /\ trends = Null
  /\ prefetchQueue = {}
  /\ pending = {}
  /\ uncaught = "none"
  /\ returned = NotCalled
  /\ typed = {}
  /\ visibleHints = {}

NextRetry == RetryStart \/ RetryFnResolves \/ RetryFnRejects \/ RetryTimerFires

\* the wrapped call and the timer always answer
SpecRetry == InitRetry /\ [][NextRetry]_vars /\ WF_vars(NextRetry)

(***************************************************************************)
(* Claims about retryWithBackoff, checked under SpecRetry.                 *)
(***************************************************************************)
RECURSIVE Pow2(_)
Pow2(n) == IF n = 0 THEN 1 ELSE 2 * Pow2(n - 1)

LastOutcome == rt.outcomes[Len(rt.outcomes)]

RetryCapInv ==
  /\ rt.maxRetries >= 1 => rt.calls <= rt.maxRetries
  /\ rt.maxRetries = 0 => rt.calls <= 1
  /\ rt.pc = "done" =>
       /\ rt.calls >= 1
       /\ rt.maxRetries = 0 => rt.calls = 1
       /\ Len(rt.outcomes) = rt.calls
       /\ rt.result \in {"ok", "error"}
       /\ rt.result = "ok" => LastOutcome = NoError
       /\ rt.result = "error" => LastOutcome # NoError /\ rt.error = LastOutcome

\* C2: the wrapped call is invoked at most maxRetries times (exactly once for
\* maxRetries = 0), and the wrapper always settles, with the result of a
\* successful attempt or the error of the last attempt.
C2_RetryCapped == [](RetryCapInv) /\ <>(rt.pc = "done")

C2_Witness ==
  /\ rt.pc = "done" /\ rt.maxRetries = 2 /\ rt.calls = 2
  /\ rt.result = "error" /\ rt.error = [message |-> {"429"}]

\* the message of e contains '429' or 'RESOURCE_EXHAUSTED'
HasRateLimitMarker(e) == e \in {[message |-> m] : m \in (SUBSET Markers) \ {{}}}

\* attempt k is followed by another attempt (made, or committed to by the timer)
Followed(k) == rt.calls > k \/ (rt.pc = "wait" /\ k = Len(rt.outcomes))

\* C3: an attempt is followed by another attempt if and only if it failed with
\* an error whose message contains '429' or 'RESOURCE_EXHAUSTED' and it was not
\* the last allowed attempt; any other error is rethrown after that attempt
\* with no wait and no further call.
C3_RetryOnlyRateLimit ==
  \A k \in 1..Len(rt.outcomes) :
    LET e == rt.outcomes[k]
    IN  /\ Followed(k) <=> (e # NoError /\ HasRateLimitMarker(e) /\ k < rt.maxRetries)
        /\ ~Followed(k) =>
             /\ rt.pc = "done" /\ rt.calls = k /\ Len(rt.waits) = k - 1
             /\ e # NoError => rt.result = "error" /\ rt.error = e

C3_Witness ==
  /\ rt.pc = "done" /\ rt.maxRetries = 3 /\ rt.calls = 2
  /\ rt.outcomes = <<[message |-> {"RESOURCE_EXHAUSTED"}], [message |-> {}]>>
  /\ rt.result = "error"

\* C4: the wait before the k-th retry is 2000 * 2^(k-1) ms, each attempt after
\* the first is preceded by exactly one such wait, and no wait happens after
\* the final attempt or after a success.
C4_BackoffDoubles ==
  /\ \A k \in 1..Len(rt.waits) : rt.waits[k] = 2000 * Pow2(k - 1)
  /\ rt.pc = "attempt" => Len(rt.waits) = rt.calls - 1
  /\ rt.pc = "wait" => Len(rt.waits) = rt.calls /\ Len(rt.outcomes) = rt.calls
  /\ rt.pc = "done" => Len(rt.waits) = rt.calls - 1
  /\ rt.pc \in {"start", "idle"} => rt.waits = <<>>

C4_Witness ==
  rt.pc = "done" /\ rt.result = "ok" /\ rt.waits = <<2000, 4000>> /\ rt.calls = 3

(***************************************************************************)
(* Network calls in flight per user action (SpecService).                  *)
(***************************************************************************)
CallsOf(o) == {c \in pending : c.owner = o}

InFlightOf(o) == {c \in CallsOf(o) : c.phase = "inflight"}

ClickOps == {"review", "practice", "trends"}

\* the failed attempt c is followed by a wait of retryWithBackoff
RetriedAfter(c) ==
  /\ build = 2
  /\ c.i < DefaultMaxRetries - 1
  /\ [c EXCEPT !.phase = "backoff"] \in pending'

\* the handler that awaited c has run to its end
CompletedAfter(c) ==
  /\ \A d \in pending' : d.owner # c.owner
  /\ loading' = FALSE
  /\ uncaught' = "none"
  /\ apiError' \in {apiError, "rateLimited", "failed"}
  /\ user' # Null

\* C5: when an AI call of handleReview, handleStartPractice or the trends
\* fetch fails, the call is retried (part_000, a bounded number of times) or
\* the handler completes in the banner or silently, with loading = false and
\* no uncaught error; no state has an uncaught error.
C5_FailuresHandled ==
  /\ [](uncaught = "none")
  /\ [][NetworkRejects =>
          \A c \in pending \ pending' :
            c.op \in ClickOps => RetriedAfter(c) \/ CompletedAfter(c)]_vars

\* a rate-limit failure was surfaced as the banner and the handler is done
C5_Witness ==
  /\ build = 2
  /\ user # Null
  /\ apiError = "rateLimited"
  /\ ~loading
  /\ pending = {}
  /\ uncaught = "none"

(***************************************************************************)
(* Cached data that is not JSON (SpecTamper).                              *)
(***************************************************************************)
\* C6, as stated: with an entry of local storage that is not valid JSON,
\* startup, handleReview and handleStartPractice end without an uncaught
\* error.
C6_ParseFailureHandled == uncaught = "none"

(***************************************************************************)
(* Persistence of the user record (Spec).                                  *)
(***************************************************************************)
\* C7: whenever a user is logged in, 'history_user' holds the JSON of
\* exactly the in-memory user record.
C7_StorageMirrorsUser ==
  user # Null => localStorage[KeyUser] = Stringify(user)

\* a user with a score, a completed lesson and a wrong question is mirrored
C7_Witness ==
  /\ user # Null
  /\ Len(user.completedLessons) > 0
  /\ DOMAIN user.quizScores # {}
  /\ Len(user.wrongQuestions) > 0
  /\ localStorage[KeyUser] = Stringify(user)

\* what the main UI offers (everything but the login form and the reload)
MainActions ==
  \/ HandleReview
  \/ HandleStartPractice
  \/ HandleNewBatch
  \/ SetUserAnswer
  \/ CalculateScore
  \/ ClearWrongQuestion
  \/ DismissError
  \/ Logout

\* C8: a reload restores the user record last saved (the same
\* completedLessons, quizScores and wrongQuestions); while 'history_user' is
\* absent the user is null and nothing but the login form can be used.
C8_ProgressSurvivesReload ==
  /\ [][Reload => user' = user]_vars
  /\ [](~Present(localStorage[KeyUser])
          => user = Null /\ pending = {} /\ ~ENABLED MainActions)

\* the page was reloaded (no lesson selected) and the user still has progress
C8_Witness ==
  /\ user # Null
  /\ selectedLesson = NoLesson
  /\ Len(user.completedLessons) > 0
  /\ DOMAIN user.quizScores # {}
  /\ Len(user.wrongQuestions) > 0

(***************************************************************************)
(* Score arithmetic (SpecScore).                                           *)
(***************************************************************************)
ChoiceOnly(qs) == SelectSeq(qs, IsChoice)

CorrectOnly(qs, answers) ==
  LET Right(q) == IsChoice(q) /\ q.id \in DOMAIN answers /\ answers[q.id] = q.answer
  IN  SelectSeq(qs, Right)

C10_UniqueWrongIds ==
  user # Null =>
    \A i, j \in Indices(user.wrongQuestions) :
      i # j => user.wrongQuestions[i].id # user.wrongQuestions[j].id

(***************************************************************************)
(* The cache of the service functions (SpecCache).                         *)
(***************************************************************************)
\* the item of the function that `returned' describes
ReturnedItem == localStorage[ServiceKey(returned.kind, returned.lesson)]

\* a call of a service function returns from the cache
CacheHitStep ==
  /\ returned' # returned
  /\ returned'.status = "done"
  /\ returned'.hit

\* C11, as stated: whenever a cache entry exists for the key, the function
\* (forceNew = false) sends no request.
C11_EntryMeansHit ==
  (returned.status = "pending" /\ ~returned.forceNew) => ~Present(ReturnedItem)

\* C11, amended: a call without forceNew sends a request only if the entry
\* is absent, or is the mindmap '' (falsy), or is the trends of part_001
\* without a timestamp younger than an hour; a call that returns from the
\* cache returns the stored value, sends nothing and writes nothing.
C11_CacheHit ==
  /\ [](returned.status = "pending" =>
          \/ returned.forceNew
          \/ ~Present(ReturnedItem)
          \/ returned.kind = "mindmap" /\ ~TruthyText(Parse(ReturnedItem))
          \/ /\ returned.kind = "trends"
             /\ build = 1
             /\ ~TimestampFresh(localStorage[KeyTimestamp]))
  /\ [][CacheHitStep =>
          /\ returned'.value = Parse(localStorage[ServiceKey(returned'.kind, returned'.lesson)])
          /\ ~returned'.forceNew
          /\ pending' = pending
          /\ localStorage' = localStorage]_vars

\* a cached quiz was returned without a request
C11_Witness ==
  /\ returned.status = "done"
  /\ returned.hit
  /\ returned.kind = "questions"
  /\ Len(returned.value) = 2
  /\ pending = {}

\* the items a step changes
ChangedKeys == {k \in Keys : localStorage'[k] # localStorage[k]}

\* the App's keys are the service's keys
SameKeys ==
  \A l \in Lessons :
    /\ KeyQuestions(l) = ServiceKey("questions", l)
    /\ KeyMindmap(l) = ServiceKey("mindmap", l)

\* C12, as stated: a successful call changes its own cache item and no other
\* item of local storage.
C12_OnlyOwnKey ==
  [][\A c \in pending \ pending' :
       ChangedKeys \subseteq {ServiceKey(c.kind, c.lesson)}]_vars

\* C12, amended: a successful call writes its result to its own cache item;
\* the trends call of part_001 writes 'trends_timestamp' as well; no other
\* item changes ('history_user' and the other lesson's items included), and
\* the items the App reads are the items the service writes.
C12_DisjointKeys ==
  /\ [](SameKeys)
  /\ [][\A c \in pending \ pending' :
          /\ ChangedKeys \subseteq
               {ServiceKey(c.kind, c.lesson)} \cup
                 (IF c.kind = "trends" /\ build = 1 THEN {KeyTimestamp} ELSE {})
          /\ \A k \in ChangedKeys \ {KeyTimestamp} :
               /\ returned'.status = "done"
               /\ localStorage'[k] = Stringify(returned'.value)]_vars

\* both lessons have a quiz and a mindmap cached, and the trends are cached
C12_Witness ==
  /\ \A l \in Lessons :
       /\ Present(localStorage[KeyQuestions(l)])
       /\ Present(localStorage[KeyMindmap(l)])
  /\ Parse(localStorage[KeyQuestions(1)]) # Parse(localStorage[KeyQuestions(2)])
  /\ Present(localStorage[KeyTrends])
  /\ localStorage[KeyUser] = Stringify(user)

\* C13, as stated: the cached trends are returned only while
\* 'trends_timestamp' exists and is less than an hour old, so never more than
\* an hour after they were fetched.
C13_TrendsExpire ==
  [][(CacheHitStep /\ returned'.kind = "trends") =>
       /\ TimestampFresh(localStorage[KeyTimestamp])
       /\ now - returned'.value.at < HourMs]_vars

\* the same restricted to part_001, where it holds
C13_TrendsExpirePart001 ==
  [][(CacheHitStep /\ returned'.kind = "trends" /\ build = 1) =>
       /\ TimestampFresh(localStorage[KeyTimestamp])
       /\ now - returned'.value.at < HourMs]_vars

\* the service function called directly settles after a request
SettleStep == returned.status = "pending" /\ returned'.status = "done"

\* C14, as stated: when the call fails on all attempts or the response text
\* is not parseable JSON (the empty text included), no item of local storage
\* is created or changed.
C14_WrittenOnlyOnSuccess ==
  [][(SettleStep /\ returned'.response \in {"error", "empty"}) =>
       localStorage' = localStorage]_vars

\* C14, amended: a failed attempt, a call that failed on all attempts and a
\* response text that is not JSON change no item, so a failed regeneration
\* leaves the cached quiz in place; an empty response text is no failure:
\* generateQuestionsFromContent caches the empty quiz for it.
C14_FailureWritesNothing ==
  /\ [][NetworkRejects => localStorage' = localStorage]_vars
  /\ [][(SettleStep /\ returned'.response = "error") =>
          localStorage' = localStorage]_vars
  /\ [][(SettleStep /\ returned'.response = "empty") =>
          /\ returned'.kind = "questions"
          /\ ChangedKeys \subseteq {ServiceKey("questions", returned'.lesson)}
          /\ localStorage'[ServiceKey("questions", returned'.lesson)] = Stringify(<<>>)]_vars

\* a regeneration (forceNew) has failed and the quiz cached before is still there
C14_Witness ==
  /\ returned.status = "done"
  /\ returned.kind = "questions"
  /\ returned.forceNew
  /\ returned.response = "error"
  /\ Present(ReturnedItem)
  /\ Len(Parse(ReturnedItem)) = 2

\* C15: generateQuestionsFromContent with forceNew = true never returns from
\* the cache; when it succeeds, the entry of the lesson holds the new quiz
\* whatever it held before, and a following call with forceNew = false is a
\* cache hit that returns that quiz.
C15_ForceNewReplaces ==
  /\ []((returned.status = "done" /\ returned.forceNew) =>
          /\ ~returned.hit
          /\ returned.response \in {"json", "empty"} =>
               /\ ReturnedItem = Stringify(returned.value)
               /\ ServiceCacheHit("questions", returned.lesson, FALSE))
  /\ [][(SettleStep /\ returned'.forceNew /\ returned'.response = "json") =>
          localStorage'[ServiceKey("questions", returned'.lesson)]
            = Stringify(returned'.value)]_vars
  /\ [][(CacheHitStep /\ returned'.kind = "questions") =>
          returned'.value = Parse(localStorage[ServiceKey("questions", returned'.lesson)])]_vars

\* a forced regeneration has replaced the entry of lesson 1 with a new quiz
C15_Witness ==
  /\ returned.status = "done"
  /\ returned.kind = "questions"
  /\ returned.lesson = 1
  /\ returned.forceNew
  /\ returned.response = "json"
  /\ Len(returned.value) = 2
  /\ ReturnedItem = Stringify(returned.value)

(***************************************************************************)
(* Scores and the wrong-question list in the App (Spec).                   *)
(***************************************************************************)
\* C16, as stated: while the user stays logged in, no step lowers or drops
\* the best score recorded for a lesson.
C16_BestScoreKept ==
  [][(user # Null /\ user' # Null) =>
       \A l \in DOMAIN user.quizScores :
         /\ l \in DOMAIN user'.quizScores
         /\ user'.quizScores[l] >= user.quizScores[l]]_vars

\* C17, as stated: in every state where a quiz can be submitted, every
\* displayed question was generated for (or cached for) selectedLesson, the
\* lesson calculateScore records the score against.
C17_QuizOfSelectedLesson ==
  (QuizShown /\ score = NoScore) =>
    \A k \in Indices(questions) : questions[k].src = selectedLesson

\* the questions of a wrong-question list
Listed(wrongQuestions) == {wrongQuestions[k] : k \in Indices(wrongQuestions)}

\* C18, as stated: after calculateScore, every choice question of the
\* submitted quiz that was not answered correctly is in user.wrongQuestions,
\* and no choice question answered correctly was added.
C18_WrongChoicesRecorded ==
  [][CalculateScore =>
       \A k \in Indices(questions) :
         IsChoice(questions[k]) =>
           IF IsCorrect(questions[k], userAnswers)
             THEN questions[k] \in Listed(user'.wrongQuestions)
                    => questions[k] \in Listed(user.wrongQuestions)
             ELSE questions[k] \in Listed(user'.wrongQuestions)]_vars

\* C19, as stated: calculateScore does not add a material question to
\* user.wrongQuestions when the user has written an answer to it.
C19_AnsweredMaterialNotAdded ==
  [][CalculateScore =>
       \A k \in Indices(questions) :
         (~IsChoice(questions[k]) /\ questions[k].id \in typed) =>
           (questions[k] \in Listed(user'.wrongQuestions)
              => questions[k] \in Listed(user.wrongQuestions))]_vars


\* C20: a quiz is submitted at most once per practice session. Once score is
\* set, no step changes score or the recorded answers except
\* handleStartPractice (or a reload of the page, which starts from useState's
\* initial values); while score is set neither an option button nor
\* calculateScore can act; and handleStartPractice, in the step in which it
\* runs, empties userAnswers and visibleHints, sets score to null and
\* switches to the practice tab.
C20_SubmittedOnce ==
  /\ [][score # NoScore =>
          \/ score' = score /\ userAnswers' = userAnswers
          \/ HandleStartPractice
          \/ Reload \/ Logout]_vars
  /\ [](score # NoScore => ~ENABLED (SetUserAnswer \/ CalculateScore))
  /\ [][(HandleStartPractice \/ HandleNewBatch) =>
          /\ userAnswers' = NoAnswers
          /\ score' = NoScore
          /\ visibleHints' = {}
          /\ activeTab' = "practice"]_vars

\* a scored quiz with recorded answers and an open hint is on the screen
C20_Witness ==
  /\ QuizShown /\ activeTab = "practice"
  /\ score # NoScore
  /\ userAnswers # NoAnswers
  /\ visibleHints # {}

\* the lesson ids in u.completedLessons
Completed(u) == IF u = Null THEN {} ELSE {u.completedLessons[k] : k \in 1..Len(u.completedLessons)}

\* C21: completedLessons only grows: while the user stays logged in, no step
\* removes a lesson id that is in user.completedLessons, also when reviews
\* and scores are saved while a handleReview is awaiting its response.
C21_CompletedOnlyGrows ==
  [][(user # Null /\ user' # Null) => Completed(user) \subseteq Completed(user')]_vars

\* completedLessons never holds the same lesson id twice
C21_NoDuplicates ==
  user # Null => Cardinality(Completed(user)) = Len(user.completedLessons)

\* C22: the displayed mindmap belongs to the selected lesson: in every state
\* where no request is pending, mindmapContent is empty or is the mindmap
\* generated (or cached) for selectedLesson, also after the mindmap call for
\* a newly selected lesson has failed.
C22_MindmapOfSelectedLesson ==
  pending = {} =>
    (mindmapContent = EmptyText \/ mindmapContent.src = selectedLesson)

\* C23: on the profile tab the average is 0 when no score is recorded;
\* otherwise it is the sum of the recorded scores divided by their number,
\* rounded to the nearest integer (halves upwards), an integer in 0..100
\* that is not below the lowest and not above the highest recorded score.
C23_ProfileAverage ==
  (MainUi /\ activeTab = "profile") =>
    LET qs  == user.quizScores
        n   == Cardinality(DOMAIN qs)
        sum == SumScores(qs)
        avg == ProfileAverage(qs)
    IN  /\ n = 0 => avg = 0
        /\ n > 0 =>
              /\ 2 * n * avg <= 2 * sum + n
              /\ 2 * sum + n < 2 * n * (avg + 1)
              /\ avg \in 0..100
              /\ \E l \in DOMAIN qs : qs[l] <= avg
              /\ \E l \in DOMAIN qs : avg <= qs[l]

\* the profile tab shows the average of two scores whose mean ends in .5
C23_Witness ==
  /\ MainUi /\ activeTab = "profile"
  /\ DOMAIN user.quizScores = Lessons
  /\ SumScores(user.quizScores) % 2 = 1
====
